---- MODULE Spec2Model ----
(***************************************************************************)
(* Task-scheduling search: the objective and feasibility functions, the     *)
(* neighbor generator, the hill-climbing engine (src/hill_climbing.py) and  *)
(* the iterative-deepening engine (src/iterative_deepening.py).             *)
(***************************************************************************)
EXTENDS Integers, Sequences, FiniteSets, TLC

\* ------------------------------------------------------------------ bounds
NumShapes == 3     \* tasks take the first NumShapes shapes of ShapeCatalogue
MaxTarget == 3     \* config.target ranges over 1..MaxTarget
MaxRestarts == 2   \* config.restarts ranges over None and 0..MaxRestarts
MaxTasks == 5      \* the engines' task lists hold 0..MaxTasks tasks
MaxFnTasks == 3    \* task lists handed to the functions applied on their own
MaxStateLen == 3   \* sequences handed to the functions applied on their own

\* ------------------------------------------------------------- data model
\* Task names: single alphabetic characters, one per position of the task list.
Names == <<"A", "B", "C", "D", "E", "F", "G", "H">>

\* Optional[int] restarts: the absent value (a present one is >= 0).
None == -1

\* The (value, length, due) triples tasks are drawn from, all positive: a
\* cheap task with a loose deadline, a task that is late even when run first,
\* a valuable task with a tight deadline, then further mixes.
ShapeCatalogue ==
  << [value |-> 1, length |-> 1, due |-> 3],
     [value |-> 1, length |-> 2, due |-> 1],
     [value |-> 2, length |-> 2, due |-> 2],
     [value |-> 2, length |-> 1, due |-> 2],
     [value |-> 3, length |-> 2, due |-> 5],
     [value |-> 1, length |-> 3, due |-> 1] >>

Shapes == {ShapeCatalogue[k] : k \in 1..NumShapes}

\* dataclass Task
mk_task(n, s) ==
  [name |-> n, value |-> s.value, length |-> s.length, due |-> s.due]

\* dataclass Config
Config == [target : 1..MaxTarget, mode : {"verbose", "compact"},
           restarts : {None} \cup (0..MaxRestarts)]

\* Task lists of n tasks as parse_file returns them, every field positive; the
\* names are taken distinct across the list (the i-th task carries the i-th
\* name).
TaskLists(n) ==
  {[i \in 1..n |-> mk_task(Names[i], sh[i])] : sh \in [1..n -> Shapes]}

\* " ".join(task.name for task in tasks), kept as the sequence of names
names_of(ts) == [i \in 1..Len(ts) |-> ts[i].name]

\* ------------------------------------------------------ objective function
RECURSIVE sum_values(_, _)
sum_values(ts, i) ==
  IF i > Len(ts) THEN 0 ELSE ts[i].value + sum_values(ts, i + 1)

get_value(ts) == sum_values(ts, 1)

abs(x) == IF x < 0 THEN -x ELSE x

\* overrun_from with the elapsed time never advanced (`time += task.length`
\* forgotten)
RECURSIVE overrun_from_time_stuck(_, _, _)
overrun_from_time_stuck(st, i, time) ==
  IF i > Len(st) THEN 0
  ELSE (IF time + st[i].length > st[i].due
          THEN time + st[i].length - st[i].due ELSE 0)
       + overrun_from_time_stuck(st, i + 1, time)

\* the for loop of get_error: the overrun accumulated from position i on,
\* with `time` elapsed before it
RECURSIVE overrun_from(_, _, _)
overrun_from(st, i, time) ==
  IF i > Len(st) THEN 0
  ELSE (IF time + st[i].length > st[i].due
          THEN time + st[i].length - st[i].due ELSE 0)
       + overrun_from(st, i + 1, time + st[i].length)

\* get_error returning the shortfall alone while the target is not met
get_error_drops_overrun(st, cfg) ==
  LET value == get_value(st)
      overrun == overrun_from(st, 1, 0)
  IN IF value < cfg.target THEN abs(cfg.target - value)
     ELSE overrun

get_error(st, cfg) ==
  LET value == get_value(st)
      overrun == overrun_from(st, 1, 0)
  IN IF value < cfg.target THEN abs(cfg.target - value) + overrun
     ELSE overrun

\* -------------------------------------------------------- feasibility check
\* can_add_walk without the test of the sequence's own deadlines
RECURSIVE can_add_walk_no_prefix_test(_, _, _, _)
can_add_walk_no_prefix_test(ts, task, i, end_time) ==
  IF i > Len(ts) THEN end_time + task.length <= task.due
  ELSE can_add_walk_no_prefix_test(ts, task, i + 1, end_time + ts[i].length)

\* the for loop of can_add_task from position i on, then the final test
RECURSIVE can_add_walk(_, _, _, _)
can_add_walk(ts, task, i, end_time) ==
  IF i > Len(ts) THEN end_time + task.length <= task.due
  ELSE LET e == end_time + ts[i].length
       IN IF e > ts[i].due THEN FALSE
          ELSE can_add_walk(ts, task, i + 1, e)

can_add_task(ts, task) == can_add_walk(ts, task, 1, 0)

\* iterative_deepening.contains: membership by name
contains(ts, task) == \E i \in 1..Len(ts) : ts[i].name = task.name

\* `t in state` of hill_climbing: membership by Task.__eq__ (all four fields)
task_in(t, st) == \E i \in 1..Len(st) : st[i] = t

\* ------------------------------------------------------- neighbor generator
\* the closure add(candidate), called on cands[k] after cands[1..k-1]: the
\* candidate is appended unless it is the state itself or its names are in
\* `seen`, i.e. an earlier candidate that was appended carries the same names
\* (the first candidate of any names that is not the state is always appended)
add(cands, st, k) ==
  /\ cands[k] # st
  /\ \A j \in 1..(k - 1) :
       cands[j] = st \/ names_of(cands[j]) # names_of(cands[k])

\* the calls add(cands[k]), add(cands[k+1]), ...: what they append
RECURSIVE add_all(_, _, _)
add_all(cands, st, k) ==
  IF k > Len(cands) THEN <<>>
  ELSE (IF add(cands, st, k) THEN <<cands[k]>> ELSE <<>>)
       \o add_all(cands, st, k + 1)

\* A) state[:i] + state[i+1:] for each i
RECURSIVE delete_from(_, _)
delete_from(st, i) ==
  IF i > Len(st) THEN <<>>
  ELSE <<SubSeq(st, 1, i - 1) \o SubSeq(st, i + 1, Len(st))>>
       \o delete_from(st, i + 1)

delete_candidates(st) == delete_from(st, 1)

\* B) cand[i], cand[i+1] = cand[i+1], cand[i] for each adjacent pair
\* (range(n - 1) is empty for n <= 1)
RECURSIVE swap_from(_, _)
swap_from(st, i) ==
  IF i > Len(st) - 1 THEN <<>>
  ELSE <<SubSeq(st, 1, i - 1) \o <<st[i + 1], st[i]>>
           \o SubSeq(st, i + 2, Len(st))>>
       \o swap_from(st, i + 1)

swap_candidates(st) == swap_from(st, 1)

\* append_candidates without the `t not in state` filter
RECURSIVE append_candidates_unfiltered(_, _, _)
append_candidates_unfiltered(st, all_tasks, i) ==
  IF i > Len(all_tasks) THEN <<>>
  ELSE <<st \o <<all_tasks[i]>> >>
       \o append_candidates_unfiltered(st, all_tasks, i + 1)

\* C) state + [t] for each t of all_tasks not in state
RECURSIVE append_candidates(_, _, _)
append_candidates(st, all_tasks, i) ==
  IF i > Len(all_tasks) THEN <<>>
  ELSE (IF task_in(all_tasks[i], st) THEN <<>>
        ELSE <<st \o <<all_tasks[i]>> >>)
       \o append_candidates(st, all_tasks, i + 1)

\* candidates with the exchanges generated before the deletes
candidates_swaps_first(st, all_tasks) ==
  swap_candidates(st) \o delete_candidates(st)
    \o append_candidates(st, all_tasks, 1)

\* the candidates in the order add is called on them: A, then B, then C
candidates(st, all_tasks) ==
  delete_candidates(st) \o swap_candidates(st)
    \o append_candidates(st, all_tasks, 1)

get_neighbors(st, all_tasks) ==
  CHOOSE ns \in {add_all(cands, st, 1) : cands \in {candidates(st, all_tasks)}} :
    TRUE

\* ------------------------------------------------------------------- state
VARIABLES
  config,             \* the Config handed to the engine
  tasks,              \* the task list handed to the engine
  pc,                 \* position of the running engine / function call
  out,                \* the lines printed so far
  exc,                \* the exception that ended the run, "none" while none
  state,              \* hill_climbing: the current state; the functions' argument
  restarts,           \* hill_climbing: the trial counter
  neighbors,          \* hill_climbing: the neighbors of the current state
  all_task_patterns,  \* iterative_deepening: the accumulated patterns
  val,                \* iterative_deepening: the depth counter
  prev_length,        \* iterative_deepening: the list length before the round
  found,              \* iterative_deepening: some pattern met the target
  arg_task,           \* the task argument of can_add_task
  ret                 \* what the applied function returned

inputs == <<config, tasks>>
hc_locals == <<state, restarts, neighbors>>
id_locals == <<all_task_patterns, val, prev_length, found>>
fn_locals == <<arg_task, ret>>

vars == <<inputs, pc, out, exc, hc_locals, id_locals, fn_locals>>

\* arg_task while no call of can_add_task has been made
NoTask == [name |-> "", value |-> 0, length |-> 0, due |-> 0]

NoRet == [error |-> 0, can |-> FALSE, neighbors |-> <<>>]

\* A printed line: what it announces, and the names, value and error it shows
\* (-1 where the line shows none).
Line(kind, ns, value, error) ==
  [kind |-> kind, names |-> ns, value |-> value, error |-> error]

verbose(lines) == IF config.mode = "verbose" THEN lines ELSE <<>>

\* ------------------------------------------- the functions applied on their own
\* every sequence of at most n elements over the set s
SeqsUpTo(s, n) == UNION {[1..k -> s] : k \in 0..n}

\* Inputs: a task list, a sequence over the tasks of the list (repeats
\* allowed) and a config; can_add_task is also given a task of the list.
InitFn ==
  /\ config \in {c \in Config : c.mode = "compact" /\ c.restarts = None}
  /\ \E n \in 0..MaxFnTasks : tasks \in TaskLists(n)
  /\ state \in SeqsUpTo({tasks[i] : i \in 1..Len(tasks)}, MaxStateLen)
  /\ arg_task = NoTask
  /\ pc = "call"
  /\ ret = NoRet
  /\ restarts = 0
  /\ neighbors = <<>>
  /\ out = <<>>
  /\ exc = "none"
  /\ all_task_patterns = <<>>
  /\ val = 0
  /\ prev_length = 0
  /\ found = FALSE

Call_get_error ==
  /\ pc = "call"
  /\ pc' = "get_error"
  /\ ret' = [ret EXCEPT !.error = get_error(state, config)]
  /\ UNCHANGED <<inputs, out, exc, hc_locals, id_locals, arg_task>>

Call_can_add_task ==
  /\ pc = "call"
  /\ pc' = "can_add_task"
  /\ \E i \in 1..Len(tasks) :
       /\ arg_task' = tasks[i]
       /\ ret' = [ret EXCEPT !.can = can_add_task(state, tasks[i])]
  /\ UNCHANGED <<inputs, out, exc, hc_locals, id_locals>>

Call_get_neighbors ==
  /\ pc = "call"
  /\ pc' = "get_neighbors"
  /\ ret' = [ret EXCEPT !.neighbors = get_neighbors(state, tasks)]
  /\ UNCHANGED <<inputs, out, exc, hc_locals, id_locals, arg_task>>

NextFn ==
  \/ Call_get_error
  \/ Call_can_add_task
  \/ Call_get_neighbors

SpecFn == InitFn /\ [][NextFn]_vars

\* ------------------------------------------- properties of the functions
\* no task name occurs twice in the sequence
name_unique(st) ==
  \A i, j \in 1..Len(st) : i # j => st[i].name # st[j].name

\* the time at which the task at position i completes when the sequence runs
\* back-to-back from time 0
RECURSIVE elapsed(_, _)
elapsed(st, i) == IF i = 0 THEN 0 ELSE elapsed(st, i - 1) + st[i].length

\* every task of the sequence completes no later than its own due
all_on_time(st) == \A i \in 1..Len(st) : elapsed(st, i) <= st[i].due

max0(x) == IF x > 0 THEN x ELSE 0

\* the sum over positions 1..i of max(0, completion time - due)
RECURSIVE lateness_sum(_, _)
lateness_sum(st, i) ==
  IF i = 0 THEN 0
  ELSE lateness_sum(st, i - 1) + max0(elapsed(st, i) - st[i].due)

\* the tasks of section 8's examples
ExampleA == [name |-> "A", value |-> 3, length |-> 2, due |-> 5]
ExampleB == [name |-> "B", value |-> 5, length |-> 3, due |-> 6]
ExampleC == [name |-> "C", value |-> 1, length |-> 4, due |-> 5]
ExampleConfig(t) == [target |-> t, mode |-> "compact", restarts |-> None]

\* C1: for a name-unique sequence and a positive target, get_error returns 0
\* if and only if the value reaches the target and every task completes no
\* later than its own due.
C1_ZeroErrorIff ==
  (pc = "get_error" /\ name_unique(state) /\ config.target > 0)
    => (ret.error = 0
          <=> (get_value(state) >= config.target /\ all_on_time(state)))

\* get_error has returned 0 for a name-unique sequence of two or more tasks
C1_Witness ==
  /\ pc = "get_error"
  /\ name_unique(state)
  /\ Len(state) >= 2
  /\ ret.error = 0

\* C9: for every sequence, get_error returns a non-negative integer equal to
\* max(0, target - value) plus the sum over the tasks of max(0, completion
\* time - due); [A, B] of the example has error 0 at target 8, 2 at target 10.
C9_ErrorFormula ==
  /\ pc = "get_error"
       => /\ ret.error \in Nat
          /\ ret.error = max0(config.target - get_value(state))
                           + lateness_sum(state, Len(state))
  /\ get_error(<<ExampleA, ExampleB>>, ExampleConfig(8)) = 0
  /\ get_error(<<ExampleA, ExampleB>>, ExampleConfig(10)) = 2

\* get_error has returned an error made of both a shortfall and an overrun
C9_Witness ==
  /\ pc = "get_error"
  /\ get_value(state) < config.target
  /\ lateness_sum(state, Len(state)) > 0
  /\ ret.error > lateness_sum(state, Len(state))

\* C10: for a sequence S and a task t not in S, can_add_task returns true if
\* and only if every task of S completes no later than its own due and the
\* total length of S plus t.length is at most t.due; [A] of the example cannot
\* be extended by C (length 4, due 5).
C10_CanAddIff ==
  /\ (pc = "can_add_task" /\ ~contains(state, arg_task))
       => (ret.can
             <=> /\ all_on_time(state)
                 /\ elapsed(state, Len(state)) + arg_task.length
                      <= arg_task.due)
  /\ ~can_add_task(<<ExampleA>>, ExampleC)

\* can_add_task has accepted a task after a non-empty sequence, and refusals
\* exist too: this one is an acceptance
C10_Witness ==
  /\ pc = "can_add_task"
  /\ ~contains(state, arg_task)
  /\ Len(state) >= 1
  /\ ret.can

\* the number of tasks of the task list that are not in the sequence
excludable(st, ts) == Cardinality({i \in 1..Len(ts) : ~task_in(ts[i], st)})

\* no two neighbors carry the same names, and none is the state itself
neighbors_distinct(st, ns) ==
  /\ \A i, j \in 1..Len(ns) : i # j => names_of(ns[i]) # names_of(ns[j])
  /\ \A i \in 1..Len(ns) : ns[i] # st /\ names_of(ns[i]) # names_of(st)

\* C5 as stated: for a name-unique state of length n (n = 0 and n = 1
\* included) and m tasks not in it, get_neighbors returns at most
\* n + (n - 1) + m candidates, no two with the same names, none equal to it.
C5_Original ==
  (pc = "get_neighbors" /\ name_unique(state))
    => /\ Len(ret.neighbors)
            <= Len(state) + (Len(state) - 1) + excludable(state, tasks)
       /\ neighbors_distinct(state, ret.neighbors)

\* C5 as amended: the bound is n + max(0, n - 1) + m (an empty state has
\* no adjacent pair, so its m appends are all returned).
C5_NeighborBound ==
  (pc = "get_neighbors" /\ name_unique(state))
    => /\ Len(ret.neighbors)
            <= Len(state) + max0(Len(state) - 1) + excludable(state, tasks)
       /\ neighbors_distinct(state, ret.neighbors)

\* get_neighbors has returned the m appends of the empty state
C5_Witness ==
  /\ pc = "get_neighbors"
  /\ state = <<>>
  /\ excludable(state, tasks) >= 2
  /\ Len(ret.neighbors) = excludable(state, tasks)

\* the sequence with position i removed
removed(st, i) == SubSeq(st, 1, i - 1) \o SubSeq(st, i + 1, Len(st))

\* the sequence with positions i and i + 1 exchanged
exchanged(st, i) ==
  [k \in 1..Len(st) |->
     IF k = i THEN st[i + 1] ELSE IF k = i + 1 THEN st[i] ELSE st[k]]

\* the tasks of the list whose name is not in the sequence, in list order
tasks_outside(st, ts) ==
  SelectSeq(ts, LAMBDA t : \A k \in 1..Len(st) : st[k].name # t.name)

\* deletes ascending, then adjacent exchanges ascending, then appends in the
\* order of the task list
expected_neighbors(st, ts) ==
  LET outside == tasks_outside(st, ts)
  IN (IF st = <<>> THEN <<>> ELSE [i \in 1..Len(st) |-> removed(st, i)])
     \o (IF Len(st) <= 1 THEN <<>>
         ELSE [i \in 1..(Len(st) - 1) |-> exchanged(st, i)])
     \o (IF outside = <<>> THEN <<>>
         ELSE [k \in 1..Len(outside) |-> st \o <<outside[k]>>])

\* C11: for a name-unique state, get_neighbors returns exactly the deletes,
\* then the adjacent exchanges, then the appends of the tasks not in the state,
\* in that order and with no feasibility filter; [A, B] over {A, B, C} gives
\* [B], [A], [B, A], [A, B, C].
C11_NeighborOrder ==
  /\ (pc = "get_neighbors" /\ name_unique(state))
       => ret.neighbors = expected_neighbors(state, tasks)
  /\ get_neighbors(<<ExampleA, ExampleB>>, <<ExampleA, ExampleB, ExampleC>>)
       = << <<ExampleB>>, <<ExampleA>>, <<ExampleB, ExampleA>>,
            <<ExampleA, ExampleB, ExampleC>> >>

\* get_neighbors has returned deletes, an exchange and an append, the append
\* being an infeasible sequence
C11_Witness ==
  /\ pc = "get_neighbors"
  /\ name_unique(state)
  /\ Len(state) = 2
  /\ Len(tasks) = 3
  /\ Len(ret.neighbors) = 4
  /\ ~all_on_time(ret.neighbors[4])

\* ------------------------------------------------------ hill-climbing engine
\* select_random_start_state: [tasks[3], tasks[4]] (0-based); indexing past the
\* end of the list raises IndexError
start_state_faults(ts) == Len(ts) < 5

select_random_start_state(ts) == <<ts[4], ts[5]>>

\* min_neighbor resolving ties towards the last neighbor of minimum error
min_neighbor_last_tie(ns, cfg) ==
  LET errs == [i \in 1..Len(ns) |-> get_error(ns[i], cfg)]
      i == CHOOSE i \in 1..Len(ns) :
             /\ \A j \in 1..Len(ns) : errs[i] <= errs[j]
             /\ \A j \in (i + 1)..Len(ns) : errs[j] > errs[i]
  IN ns[i]

\* min(neighbors, key=get_error): the first neighbor of minimum error
min_neighbor(ns, cfg) ==
  LET errs == [i \in 1..Len(ns) |-> get_error(ns[i], cfg)]
      i == CHOOSE i \in 1..Len(ns) :
             /\ \A j \in 1..Len(ns) : errs[i] <= errs[j]
             /\ \A j \in 1..(i - 1) : errs[j] > errs[i]
  IN ns[i]

\* print_task_pattern(neighbor, config) for each neighbor
print_neighbors(ns, cfg) ==
  [i \in 1..Len(ns) |->
     Line("pattern", names_of(ns[i]), get_value(ns[i]), get_error(ns[i], cfg))]

\* before main has read the input: no config, no tasks yet
InitMain ==
  /\ pc = "main"
  /\ config = [target |-> 1, mode |-> "compact", restarts |-> None]
  /\ tasks = <<>>
  /\ state = <<>>
  /\ restarts = 0
  /\ neighbors = <<>>
  /\ out = <<>>
  /\ exc = "none"
  /\ arg_task = NoTask
  /\ ret = NoRet
  /\ all_task_patterns = <<>>
  /\ val = 0
  /\ prev_length = 0
  /\ found = FALSE

\* parse_file, line 1: the validated Config
hc_read_config ==
  /\ pc = "main"
  /\ config' \in Config
  /\ pc' = "read_tasks"
  /\ UNCHANGED <<tasks, out, exc, hc_locals, id_locals, fn_locals>>

\* parse_file, a task line: tasks.append(Task(...)), every field positive
read_task ==
  /\ pc = "read_tasks"
  /\ Len(tasks) < MaxTasks
  /\ \E s \in Shapes : tasks' = Append(tasks, mk_task(Names[Len(tasks) + 1], s))
  /\ UNCHANGED <<config, pc, out, exc, hc_locals, id_locals, fn_locals>>

\* main: the input is read, config and tasks are handed to hill_climbing
hc_main ==
  /\ pc = "read_tasks"
  /\ pc' = "hc_begin"
  /\ UNCHANGED <<inputs, out, exc, hc_locals, id_locals, fn_locals>>

\* hill_climbing, up to the outer loop: restarts must be present
hc_begin ==
  /\ pc = "hc_begin"
  /\ IF config.restarts = None
       THEN pc' = "raised" /\ exc' = "ValueError"
       ELSE pc' = "hc_outer" /\ exc' = exc
  /\ restarts' = 0
  /\ UNCHANGED <<inputs, state, neighbors, out, id_locals, fn_locals>>

\* the outer loop's test with <= for <
more_trials_off_by_one(r, cfg) == r <= cfg.restarts

\* while restarts < config.restarts
more_trials(r, cfg) == r < cfg.restarts

\* the outer loop's test, then the choice of the start state of a trial
hc_outer ==
  /\ pc = "hc_outer"
  /\ IF more_trials(restarts, config)
       THEN IF start_state_faults(tasks)
              THEN /\ pc' = "raised"
                   /\ exc' = "IndexError"
                   /\ UNCHANGED <<state, out>>
              ELSE LET s0 == select_random_start_state(tasks)
                   IN /\ state' = s0
                      /\ out' = out \o verbose(<<Line("start", names_of(s0),
                                   get_value(s0), get_error(s0, config))>>)
                      /\ pc' = "hc_step"
                      /\ exc' = exc
       ELSE /\ pc' = "done"
            /\ UNCHANGED <<state, out, exc>>
  /\ UNCHANGED <<inputs, restarts, neighbors, id_locals, fn_locals>>

\* a pass of the inner while True loop begins: neighbors = get_neighbors(...)
hc_step ==
  /\ pc = "hc_step"
  /\ neighbors' = get_neighbors(state, tasks)
  /\ pc' = "hc_choose"
  /\ UNCHANGED <<inputs, state, restarts, out, exc, id_locals, fn_locals>>

\* choose_branch accepting any neighbor that improves on the state, whatever
\* its error
choose_branch_accepts_improving(st, ns, cfg, m, em) ==
  LET listing == verbose(print_neighbors(ns, cfg))
  IN IF em = 0 \/ em < get_error(st, cfg)
       THEN [state |-> m, pc |-> "hc_after",
             lines |-> listing \o
               <<Line("found", names_of(m), get_value(m), -1)>>]
       ELSE [state |-> st, pc |-> "hc_after",
             lines |-> listing \o
               verbose(<<Line("search_failed", <<>>, -1, -1)>>)]

\* the branches on min_neighbor m and its error em (lines 208-224): the state
\* the pass leaves, the lines it prints and where control goes next
choose_branch(st, ns, cfg, m, em) ==
  LET listing == verbose(print_neighbors(ns, cfg))
  IN IF em = 0
       THEN [state |-> m, pc |-> "hc_after",
             lines |-> listing \o
               <<Line("found", names_of(m), get_value(m), -1)>>]
       ELSE IF em >= get_error(st, cfg)
       THEN [state |-> st, pc |-> "hc_after",
             lines |-> listing \o
               verbose(<<Line("search_failed", <<>>, -1, -1)>>)]
       ELSE [state |-> m, pc |-> "hc_step",
             lines |-> listing \o
               verbose(<<Line("move", names_of(m), get_value(m), em)>>)]

\* the rest of the pass, given the neighbors (lines 197-224)
choose_result(st, ns, cfg) ==
  IF ns = <<>>
    THEN [state |-> st, pc |-> "hc_after",
          lines |-> verbose(<<Line("search_failed", <<>>, -1, -1)>>)]
    ELSE CHOOSE r \in {choose_branch(st, ns, cfg, m, get_error(m, cfg)) :
                         m \in {min_neighbor(ns, cfg)}} : TRUE

hc_choose ==
  /\ pc = "hc_choose"
  /\ \E r \in {choose_result(state, neighbors, config)} :
       /\ state' = r.state
       /\ out' = out \o r.lines
       /\ pc' = r.pc
  /\ UNCHANGED <<inputs, restarts, neighbors, exc, id_locals, fn_locals>>

\* after the inner loop: stop on a zero-error state, else count the trial
hc_after ==
  /\ pc = "hc_after"
  /\ IF get_error(state, config) = 0
       THEN /\ pc' = "done"
            /\ UNCHANGED <<restarts, out>>
       ELSE /\ restarts' = restarts + 1
            /\ out' = IF restarts + 1 >= config.restarts
                        THEN Append(out, Line("no_solution", <<>>, -1, -1))
                        ELSE out
            /\ pc' = "hc_outer"
  /\ UNCHANGED <<inputs, state, neighbors, exc, id_locals, fn_locals>>

NextHC ==
  \/ hc_read_config
  \/ read_task
  \/ hc_main
  \/ hc_begin
  \/ hc_outer
  \/ hc_step
  \/ hc_choose
  \/ hc_after

SpecHC == InitMain /\ [][NextHC]_vars

\* every step of hill_climbing is taken as long as one is possible
FairSpecHC == SpecHC /\ WF_vars(NextHC)

\* ----------------------------------------------- properties of hill_climbing
\* the least position of a non-empty set of positions
first_position(ks) == CHOOSE k \in ks : \A j \in ks : k <= j

HasLine(lines, kind) == \E i \in 1..Len(lines) : lines[i].kind = kind

\* C2: whenever the current state is replaced by a neighbor (the accepted one
\* included), the new state's error is strictly less than the old state's.
C2_StrictDecrease ==
  [][(pc = "hc_choose" /\ state' # state)
       => get_error(state', config) < get_error(state, config)]_vars

\* C3: every trial ends (accept or failure), the run ends, and no more than
\* config.restarts trials are started.
C3_Terminates ==
  /\ (pc = "hc_step") ~> (pc = "hc_after")
  /\ <>(pc \in {"done", "raised"})
  /\ [](pc \in {"hc_step", "hc_choose", "hc_after"}
         => restarts + 1 <= config.restarts)
  /\ [](config.restarts # None => restarts <= config.restarts)

\* a run of two or more trials, with moves in them, has ended
C3_Witness ==
  /\ pc = "done"
  /\ config.restarts >= 2
  /\ restarts = config.restarts
  /\ HasLine(out, "move")

\* C4: no trial starts after a solution is accepted; a failed trial is
\* followed by another trial while fewer than config.restarts have been
\* attempted; when all config.restarts trials have ended without a solution,
\* "No solution found" is reported.
C4_RestartControl ==
  [][/\ HasLine(out, "found") => pc' # "hc_step"
     /\ (pc = "hc_after" /\ ~HasLine(out, "found")
           /\ restarts + 1 < config.restarts)
          => (pc' = "hc_outer" /\ more_trials(restarts', config))
     /\ (pc' = "done" /\ ~HasLine(out', "found")
           /\ config.restarts >= 1 /\ restarts' = config.restarts)
          => HasLine(out', "no_solution")]_vars

\* the positions of the neighbors no neighbor has a smaller error than
min_positions(ns, cfg) ==
  {i \in 1..Len(ns) :
     \A j \in 1..Len(ns) : get_error(ns[i], cfg) <= get_error(ns[j], cfg)}

\* C12: at a step with a non-empty neighbor list, the neighbor selected has
\* the minimum error of the list and is the earliest generated of those that
\* have it: the state moves to that neighbor or, when the step fails, that
\* neighbor's error is neither 0 nor below the state's.
C12_MinSelected ==
  [][(pc = "hc_choose" /\ neighbors # <<>>)
       => LET k == first_position(min_positions(neighbors, config))
          IN IF state' # state
               THEN state' = neighbors[k]
               ELSE /\ get_error(neighbors[k], config) # 0
                    /\ get_error(neighbors[k], config)
                         >= get_error(state, config)]_vars

\* the state has moved to a neighbor that a later neighbor ties with
C12_Witness ==
  /\ pc \in {"hc_step", "hc_after"}
  /\ \E k \in 1..Len(neighbors) :
       /\ state = neighbors[k]
       /\ \E j \in (k + 1)..Len(neighbors) :
            get_error(neighbors[j], config) = get_error(state, config)

\* C15: "Found solution" is reported only for a sequence of error 0, that is
\* a name-unique sequence whose value reaches the target and whose tasks all
\* complete by their due; a pass that ends in "Search failed" reports none.
C15_FoundIsSolution ==
  [][pc = "hc_choose"
       => LET added == SubSeq(out', Len(out) + 1, Len(out'))
          IN /\ \A i \in 1..Len(added) :
                  added[i].kind = "found"
                    => /\ added[i].names = names_of(state')
                       /\ added[i].value = get_value(state')
                       /\ get_error(state', config) = 0
                       /\ name_unique(state')
                       /\ get_value(state') >= config.target
                       /\ all_on_time(state')
             /\ ~(HasLine(added, "found") /\ HasLine(added, "search_failed"))
             /\ (pc' = "hc_after" /\ state' = state) => ~HasLine(added, "found")
             /\ Cardinality({i \in 1..Len(added) : added[i].kind = "found"})
                  <= 1]_vars

\* a solution of two or more tasks has been reported after a move
C15_Witness ==
  /\ pc = "hc_after"
  /\ HasLine(out, "move")
  /\ out[Len(out)].kind = "found"
  /\ out[Len(out)].names = names_of(state)
  /\ Len(state) >= 2

\* C20: a run with restarts present that returns has printed exactly one
\* terminal message, "Found solution" or "No solution found", whatever
\* config.restarts (0 included) and the start state (one of error 0 included).
C20_OneTerminalMessage ==
  (pc = "done" /\ config.restarts # None)
    => Cardinality({i \in 1..Len(out) :
                      out[i].kind \in {"found", "no_solution"}}) = 1

\* C8: with restarts present and one or more tasks, the run never ends in an
\* exception.
C8_NoFault ==
  (config.restarts # None /\ Len(tasks) >= 1) => exc = "none"

\* -------------------------------------------------- iterative-deepening engine
\* extensions without the can_add_task test
RECURSIVE extensions_no_feasibility(_, _, _)
extensions_no_feasibility(base, ts, i) ==
  IF i > Len(ts) THEN <<>>
  ELSE (IF ~contains(base, ts[i]) THEN <<base \o <<ts[i]>> >> ELSE <<>>)
       \o extensions_no_feasibility(base, ts, i + 1)

\* extensions without the `not contains(base, t)` test
RECURSIVE extensions_repeat_tasks(_, _, _)
extensions_repeat_tasks(base, ts, i) ==
  IF i > Len(ts) THEN <<>>
  ELSE (IF can_add_task(base, ts[i]) THEN <<base \o <<ts[i]>> >> ELSE <<>>)
       \o extensions_repeat_tasks(base, ts, i + 1)

\* the list comprehension of step_expand: the valid 1-step extensions of base
RECURSIVE extensions(_, _, _)
extensions(base, ts, i) ==
  IF i > Len(ts) THEN <<>>
  ELSE (IF ~contains(base, ts[i]) /\ can_add_task(base, ts[i])
          THEN <<base \o <<ts[i]>> >> ELSE <<>>)
       \o extensions(base, ts, i + 1)

\* expand_from without the `len(base) != val` test: every pattern is extended
RECURSIVE expand_from_extends_all(_, _, _, _)
expand_from_extends_all(patterns, ts, v, k) ==
  IF k > Len(patterns) THEN <<>>
  ELSE <<patterns[k]>> \o extensions(patterns[k], ts, 1)
       \o expand_from_extends_all(patterns, ts, v, k + 1)

\* the for loop of step_expand from position k on: each base, then its
\* extensions when its length is val
RECURSIVE expand_from(_, _, _, _)
expand_from(patterns, ts, v, k) ==
  IF k > Len(patterns) THEN <<>>
  ELSE <<patterns[k]>>
       \o (IF Len(patterns[k]) # v THEN <<>>
           ELSE extensions(patterns[k], ts, 1))
       \o expand_from(patterns, ts, v, k + 1)

step_expand(patterns, ts, v) == expand_from(patterns, ts, v, 1)

\* seed_patterns without the `task.length <= task.due` filter
RECURSIVE seed_patterns_unfiltered(_, _)
seed_patterns_unfiltered(ts, i) ==
  IF i > Len(ts) THEN <<>>
  ELSE << <<ts[i]>> >> \o seed_patterns_unfiltered(ts, i + 1)

\* [[task] for task in tasks if task.length <= task.due]
RECURSIVE seed_patterns(_, _)
seed_patterns(ts, i) ==
  IF i > Len(ts) THEN <<>>
  ELSE (IF ts[i].length <= ts[i].due THEN << <<ts[i]>> >> ELSE <<>>)
       \o seed_patterns(ts, i + 1)

\* print_task_pattern(tasks) of iterative_deepening: no error is shown
pattern_line(p) == Line("pattern", names_of(p), get_value(p), -1)

\* the string printed under "Depth=1": one line per seed, an empty line if none
seed_lines(patterns) ==
  IF patterns = <<>> THEN <<Line("blank", <<>>, -1, -1)>>
  ELSE [k \in 1..Len(patterns) |->
          Line("pattern", <<patterns[k][1].name>>, patterns[k][1].value, -1)]

\* scan_lines with the target test > for >=
RECURSIVE scan_lines_strict(_, _, _)
scan_lines_strict(patterns, cfg, k) ==
  IF k > Len(patterns) THEN <<>>
  ELSE IF get_value(patterns[k]) > cfg.target
    THEN (IF cfg.mode = "verbose"
            THEN <<pattern_line(patterns[k]), Line("blank", <<>>, -1, -1)>>
            ELSE <<>>)
         \o <<Line("found", names_of(patterns[k]), get_value(patterns[k]), -1)>>
    ELSE (IF cfg.mode = "verbose" THEN <<pattern_line(patterns[k])>> ELSE <<>>)
         \o scan_lines_strict(patterns, cfg, k + 1)

\* the for loop over all_task_patterns from position k on: the lines printed
RECURSIVE scan_lines(_, _, _)
scan_lines(patterns, cfg, k) ==
  IF k > Len(patterns) THEN <<>>
  ELSE IF get_value(patterns[k]) >= cfg.target
    THEN (IF cfg.mode = "verbose"
            THEN <<pattern_line(patterns[k]), Line("blank", <<>>, -1, -1)>>
            ELSE <<>>)
         \o <<Line("found", names_of(patterns[k]), get_value(patterns[k]), -1)>>
    ELSE (IF cfg.mode = "verbose" THEN <<pattern_line(patterns[k])>> ELSE <<>>)
         \o scan_lines(patterns, cfg, k + 1)

\* parse_file, line 1: the validated Config (restarts is unused by iterative
\* deepening and left absent)
id_read_config ==
  /\ pc = "main"
  /\ config' \in {c \in Config : c.restarts = None}
  /\ pc' = "read_tasks"
  /\ UNCHANGED <<tasks, out, exc, hc_locals, id_locals, fn_locals>>

\* main: the input is read, config and tasks are handed to iterative_deepening
id_main ==
  /\ pc = "read_tasks"
  /\ pc' = "id_begin"
  /\ UNCHANGED <<inputs, out, exc, hc_locals, id_locals, fn_locals>>

\* iterative_deepening up to the loop: seed the list, val = 1
id_begin ==
  /\ pc = "id_begin"
  /\ \E seeds \in {seed_patterns(tasks, 1)} :
       /\ all_task_patterns' = seeds
       /\ out' = out \o verbose(<<Line("depth", <<>>, 1, -1)>> \o seed_lines(seeds))
  /\ val' = 1
  /\ pc' = "id_expand"
  /\ UNCHANGED <<inputs, exc, hc_locals, prev_length, found, fn_locals>>

\* first half of a round: expand the frontier, stop at the fixpoint
id_expand ==
  /\ pc = "id_expand"
  /\ prev_length' = Len(all_task_patterns)
  /\ \E expanded \in {step_expand(all_task_patterns, tasks, val)} :
       /\ all_task_patterns' = expanded
       /\ IF Len(all_task_patterns) = Len(expanded)
            THEN /\ out' = out \o verbose(<<Line("depth", <<>>, val + 1, -1),
                                            Line("no_solution", <<>>, -1, -1)>>)
                 /\ pc' = "done"
            ELSE /\ out' = out \o verbose(<<Line("depth", <<>>, val + 1, -1)>>)
                 /\ pc' = "id_scan"
  /\ UNCHANGED <<inputs, exc, hc_locals, val, found, fn_locals>>

\* second half of a round: scan the list for the first pattern meeting the
\* target, then val += 1
id_scan ==
  /\ pc = "id_scan"
  /\ found' = (\E k \in 1..Len(all_task_patterns) :
                 get_value(all_task_patterns[k]) >= config.target)
  /\ out' = out \o scan_lines(all_task_patterns, config, 1)
  /\ val' = val + 1
  /\ pc' = IF found' THEN "done" ELSE "id_expand"
  /\ UNCHANGED <<inputs, exc, hc_locals, all_task_patterns, prev_length, fn_locals>>

NextID ==
  \/ id_read_config
  \/ read_task
  \/ id_main
  \/ id_begin
  \/ id_expand
  \/ id_scan

SpecID == InitMain /\ [][NextID]_vars

\* every step of iterative_deepening is taken as long as one is possible
FairSpecID == SpecID /\ WF_vars(NextID)

\* ---------------------------------------- properties of iterative_deepening
\* the positions of the patterns whose value meets the target
qualifying(patterns, cfg) ==
  {k \in 1..Len(patterns) : get_value(patterns[k]) >= cfg.target}

first_of(ks) == CHOOSE k \in ks : \A j \in ks : k <= j

\* what must follow a base: one extension per task not in the base that
\* can_add_task accepts, in task-list order, for a base of length v only
extensions_due(base, ts, v) ==
  IF Len(base) # v THEN <<>>
  ELSE LET ok == SelectSeq(ts, LAMBDA t :
                   /\ \A i \in 1..Len(base) : base[i].name # t.name
                   /\ can_add_task(base, t))
       IN IF ok = <<>> THEN <<>>
          ELSE [j \in 1..Len(ok) |-> base \o <<ok[j]>>]

\* the position the k-th input pattern must take in the list returned
RECURSIVE position_due(_, _, _, _)
position_due(patterns, ts, v, k) ==
  IF k = 1 THEN 1
  ELSE position_due(patterns, ts, v, k - 1) + 1
         + Len(extensions_due(patterns[k - 1], ts, v))

\* C13: step_expand keeps every input pattern, in the same relative order;
\* only patterns of length val are extended; the extensions of a base follow
\* it immediately, before the next input pattern, and nothing else is added.
C13_ExpandShape ==
  [][pc = "id_expand"
       => LET old == all_task_patterns
              new == all_task_patterns'
          IN /\ Len(new) = position_due(old, tasks, val, Len(old) + 1) - 1
             /\ \A k \in 1..Len(old) :
                  LET at == position_due(old, tasks, val, k)
                      ext == extensions_due(old[k], tasks, val)
                  IN /\ new[at] = old[k]
                     /\ \A j \in 1..Len(ext) : new[at + j] = ext[j]]_vars

\* a round at depth 2 has extended the pairs and kept the single tasks, which
\* are no longer of the frontier's length, and a task of the list is in no
\* pattern at all
C13_Witness ==
  /\ pc = "id_scan"
  /\ val = 2
  /\ Len(all_task_patterns[1]) = 1
  /\ \E k \in 1..(Len(all_task_patterns) - 1) :
       /\ Len(all_task_patterns[k]) = 2
       /\ Len(all_task_patterns[k + 1]) = 3
  /\ \E i \in 1..Len(tasks) :
       \A k \in 1..Len(all_task_patterns) :
         ~contains(all_task_patterns[k], tasks[i])

\* C14: whenever a solution is reported, the reported pattern was added to
\* the list in that same round (its length is the depth counter plus one);
\* a pattern the list held before the round, a seed included, is never reported.
C14_ReportedIsNew ==
  [][pc = "id_scan"
       => \A i \in (Len(out) + 1)..Len(out') :
            out'[i].kind = "found" => Len(out'[i].names) = val + 1]_vars

\* C16: whenever a solution is reported, it is a pattern of the list in
\* which no task name occurs twice, every task completes no later than its
\* own due, and whose value is at least the target.
C16_ReportedIsFeasible ==
  [][pc = "id_scan"
       => \A i \in (Len(out) + 1)..Len(out') :
            out'[i].kind = "found"
              => \E k \in 1..Len(all_task_patterns) :
                   LET p == all_task_patterns[k]
                   IN /\ out'[i].names = names_of(p)
                      /\ out'[i].value = get_value(p)
                      /\ name_unique(p)
                      /\ all_on_time(p)
                      /\ get_value(p) >= config.target]_vars

\* a solution of three tasks has been reported from a task list that also
\* holds a task late on its own
C16_Witness ==
  /\ pc = "done"
  /\ out # <<>>
  /\ out[Len(out)].kind = "found"
  /\ Len(out[Len(out)].names) = 3
  /\ \E i \in 1..Len(tasks) : tasks[i].length > tasks[i].due

\* some name-unique sequence over the task list completes every task by its
\* due and reaches the target
solution_exists(ts, cfg) ==
  \E st \in SeqsUpTo({ts[i] : i \in 1..Len(ts)}, Len(ts)) :
    /\ st # <<>>
    /\ name_unique(st)
    /\ all_on_time(st)
    /\ get_value(st) >= cfg.target

\* C17: the engine ends with "No solution found" only if no name-unique,
\* fully feasible sequence reaches the target; in particular a solution is
\* reported when a single feasible task alone reaches the target.
C17_NoSolutionIsSound ==
  pc = "done"
    => /\ HasLine(out, "no_solution") => ~solution_exists(tasks, config)
       /\ (\E i \in 1..Len(tasks) :
             /\ tasks[i].length <= tasks[i].due
             /\ tasks[i].value >= config.target)
            => HasLine(out, "found")

\* C6: in a round where step_expand adds no pattern, the engine reports
\* "No solution found" and stops, in verbose and in compact mode.
C6_FixpointReported ==
  [][(pc = "id_expand" /\ Len(all_task_patterns') = Len(all_task_patterns))
       => /\ pc' = "done"
          /\ out' # <<>>
          /\ out'[Len(out')].kind = "no_solution"]_vars

\* C7: in a round that added a pattern, if some pattern of the list has value
\* >= target, the first such in list order is reported as the solution, once,
\* and the engine stops; if none has, no solution is reported, the depth
\* counter grows by one and another round runs.
C7_FirstQualifying ==
  [][pc = "id_scan"
       => LET q == qualifying(all_task_patterns, config)
              added == SubSeq(out', Len(out) + 1, Len(out'))
          IN IF q # {}
               THEN /\ added # <<>>
                    /\ added[Len(added)]
                         = Line("found",
                                names_of(all_task_patterns[first_of(q)]),
                                get_value(all_task_patterns[first_of(q)]), -1)
                    /\ Cardinality({i \in 1..Len(added) :
                                      added[i].kind = "found"}) = 1
                    /\ pc' = "done"
               ELSE /\ ~HasLine(added, "found")
                    /\ val' = val + 1
                    /\ pc' = "id_expand"]_vars

\* a round without a qualifying pattern was followed by a round that reported
\* a solution which is not the first pattern of the list
C7_Witness ==
  /\ pc = "done"
  /\ found
  /\ val >= 3
  /\ out[Len(out)].kind = "found"
  /\ out[Len(out)].names # names_of(all_task_patterns[1])

\* every feasible extension of the pattern occurs exactly once in the list
extended(patterns, ts, p) ==
  \A i \in 1..Len(ts) :
    (~contains(p, ts[i]) /\ can_add_task(p, ts[i]))
      => Cardinality({k \in 1..Len(patterns) :
                        patterns[k] = p \o <<ts[i]>>}) = 1

\* no sequence occurs twice; every pattern is name-unique, completes every
\* task by its due and has between 1 and v + 1 tasks
patterns_sound(patterns, v) ==
  /\ \A j, k \in 1..Len(patterns) : j # k => patterns[j] # patterns[k]
  /\ \A k \in 1..Len(patterns) :
       /\ name_unique(patterns[k])
       /\ all_on_time(patterns[k])
       /\ Len(patterns[k]) \in 1..(v + 1)

\* C18 as stated: in every state of iterative_deepening the list is sound and
\* each pattern of length k <= val has had its feasible extensions generated
\* exactly once.
C18_Original ==
  pc \in {"id_expand", "id_scan", "done"}
    => /\ patterns_sound(all_task_patterns, val)
       /\ \A k \in 1..Len(all_task_patterns) :
            Len(all_task_patterns[k]) <= val
              => extended(all_task_patterns, tasks, all_task_patterns[k])

\* C18 as amended: the patterns of length k < val have had their extensions
\* generated, those of length val only between the round's step_expand and
\* its increment of val.
C18_PatternInvariant ==
  pc \in {"id_expand", "id_scan", "done"}
    => /\ patterns_sound(all_task_patterns, val)
       /\ \A k \in 1..Len(all_task_patterns) :
            Len(all_task_patterns[k])
                <= (IF pc = "id_scan" THEN val ELSE val - 1)
              => extended(all_task_patterns, tasks, all_task_patterns[k])

\* at the top of the third round the pairs are in the list and one of them
\* has a feasible extension that is not generated yet
C18_Witness ==
  /\ pc = "id_expand"
  /\ val = 2
  /\ \E k \in 1..Len(all_task_patterns) :
       /\ Len(all_task_patterns[k]) = 2
       /\ ~extended(all_task_patterns, tasks, all_task_patterns[k])

max1(x) == IF x > 1 THEN x ELSE 1

\* C19 as stated: the engine terminates, after at most |tasks| rounds of
\* step_expand (val is the number of the round about to run).
C19_Original ==
  /\ <>(pc = "done")
  /\ [](pc = "id_expand" => val <= Len(tasks))

\* C19 as amended: at most max(1, |tasks|) rounds, the first round running
\* even when the task list is empty.
C19_Terminates ==
  /\ <>(pc = "done")
  /\ [](pc = "id_expand" => val <= max1(Len(tasks)))

\* a run over two or more tasks has ended at the fixpoint of round |tasks|
\* without a solution
C19_Witness ==
  /\ pc = "done"
  /\ Len(tasks) >= 2
  /\ val = Len(tasks)
  /\ ~HasLine(out, "found")
  /\ \E k \in 1..Len(all_task_patterns) :
       Len(all_task_patterns[k]) = Len(tasks)

====
